---- MODULE Spec2Model ----
(***************************************************************************)
(* Model of the PPE detection worker (modules/ppe_worker.py, PPEDetector)  *)
(* and of the dashboard's real-time relay and image query                  *)
(* (routers/dashboard.py: ws_stats, sse_stats, latest_images).             *)
(*                                                                         *)
(* Conventions                                                             *)
(*  - A Python dict is a function whose DOMAIN is the set of keys present; *)
(*    d.get(k, default) is Get(d, k, default).                             *)
(*  - A byte string stored in Redis is a record with a "kind":             *)
(*    "json" (the text of a JSON object, field "value" holds the object),  *)
(*    "nondict" (valid JSON that is not an object, e.g. 5 or null),        *)
(*    "malformed" (non-empty text json.loads rejects), "empty" (b"").      *)
(*  - Confidences and the threshold are in tenths (0.5 is 5).              *)
(*  - A file path is the sequence of its components.                       *)
(*  - A worker action is one round trip to the store together with the     *)
(*    local code that follows it up to the next round trip, so that the    *)
(*    actions of several workers interleave exactly where their store      *)
(*    operations can.                                                      *)
(***************************************************************************)
EXTENDS Integers, Sequences, FiniteSets, TLC

\* ------------------------------------------------------------ bounds ----
MaxTime     == 2    \* int(time.time()) ranges over 1..MaxTime
MaxProduced == 2    \* items the producers add to ppe_queue / person_logs
MaxScore    == 2    \* person_logs scores and "ts" fields range over 1..MaxScore
MaxBoxes    == 2    \* detection boxes returned by one predict call
MaxPredicts == 2    \* calls of predict, over all workers

\* --------------------------------------------------------- universes ----
Workers    == {"w1", "w2"}
Labels     == {"helmet", "vest"}
ConfValues == {3, 5}

\* ------------------------------------------------------------- state ----
VARIABLES
    now,          \* the last value int(time.time()) returned
    cfg,          \* self.cfg
    hook,         \* TRUE iff update_callback was given
    running,      \* self.running, per worker
    pc,           \* position of each worker thread in run()
    last_ts,      \* self.last_ts, per worker
    entries,      \* the list "entries" of run(), what is left to iterate
    ctx,          \* locals of _process_entry while its task loop runs
    ppe_queue,    \* Redis list "ppe_queue"
    person_logs,  \* Redis sorted set "person_logs"
    ppe_logs,     \* Redis sorted set "ppe_logs"
    counters,     \* Redis integer keys "<status>_count"
    produced,     \* number of items the counted producers added so far
    predictCalls, \* calls of self.model.predict so far
    hookCalls,    \* calls of self.update_callback so far
    zaddCalls,    \* calls of redis.zadd("ppe_logs", ...) so far
    inferred,     \* the confidence map of each image predict has seen so far
    handed,       \* per worker: the person_logs members passed to _process_entry
    stream,       \* Redis stream "people_counter"; a message's id is its index
    skind,        \* per subscriber: "none", "ws" (/ws/stats) or "sse" (/sse/stats)
    spc,          \* per subscriber: position of its handler
    last_id,      \* per subscriber: the local last_id
    after,        \* per subscriber: the id its pending xread waits behind
    got,          \* per subscriber: ids of the messages xread returned to it
    received,     \* per subscriber: ids of the messages forwarded to it
    snaps,        \* per subscriber: snapshots sent to it
    connectedAt,  \* per subscriber: length of the stream when it connected
    alive,        \* per subscriber: the client has not gone away
    query,        \* the last latest_images request
    selected,     \* the log entries that request picked, in order
    images        \* the "images" list of its response

workerVars == <<cfg, hook, running, pc, last_ts, entries, ctx>>
storeVars  == <<ppe_queue, person_logs, ppe_logs, counters>>
callVars   == <<predictCalls, hookCalls, zaddCalls>>
ghostVars  == <<produced, callVars, inferred, handed>>
relayVars  == <<stream, skind, spc, last_id, after, got, received, snaps,
                connectedAt, alive>>
queryVars  == <<query, selected, images>>
dashVars   == <<relayVars, queryVars>>
vars == <<now, workerVars, storeVars, ghostVars, relayVars, queryVars>>

\* ------------------------------------------------------ Python dicts ----
EmptyDict == [k \in {} |-> 0]

Get(d, k, default) == IF k \in DOMAIN d THEN d[k] ELSE default

Put(d, k, v) == [x \in (DOMAIN d) \cup {k} |-> IF x = k THEN v ELSE d[x]]

Max(a, b) == IF a >= b THEN a ELSE b

\* -------------------------------------------------------------- JSON ----
JsonDumps(obj) == [kind |-> "json", value |-> obj]

\* json.loads raises on text that is not JSON
JsonLoadsOk(item) == item.kind \in {"json", "nondict"}

\* a JSON value other than an object has no .get: entry.get raises
IsDict(item) == item.kind = "json"

JsonLoads(item) == item.value

\* Python truthiness of a popped value: None and b"" are both falsy
Truthy(item) == item.kind # "empty"

\* ------------------------------------------------------- sorted sets ----
ZAdd(zset, member, score) ==
    {x \in zset : x.member # member} \cup {[member |-> member, score |-> score]}

\* the orders in which a range of a sorted set can be returned: ascending
\* score; equal scores are ordered by the members' bytes, which the model
\* leaves open
AscendingSeqs(zs) ==
    {s \in [1..Cardinality(zs) -> zs] :
        /\ \A i, j \in DOMAIN s : i # j => s[i] # s[j]
        /\ \A i, j \in DOMAIN s : i < j => s[i].score <= s[j].score}

ZRangeByScore(zset, lo) ==
    {[i \in DOMAIN s |-> s[i].member] :
        s \in AscendingSeqs({x \in zset : x.score >= lo})}

IncrBy2(cnt, key) == Put(cnt, key, Get(cnt, key, 0) + 2)

\* redis.incr: atomic, a missing key counts as 0
Incr(cnt, key) == Put(cnt, key, Get(cnt, key, 0) + 1)

\* ------------------------------------------------------------- paths ----
NoPath  == <<>>
SnapDir == <<"/", "snap">>
Files   == {<<"/", "snap", "a.jpg">>}      \* the images cv2.imread can load

IsAbsolute(p) == p # <<>> /\ p[1] = "/"
PathName(p)   == p[Len(p)]
ImgPath(p)    == IF IsAbsolute(p) THEN p ELSE SnapDir \o <<PathName(p)>>

ImReadAny(p) == TRUE

\* cv2.imread(str(img_path)) returns an image, and not None
ImRead(p) == p \in Files

\* ----------------------------------------------------------- statuses ----
DefaultThresh == 5

NoPrefix(item) == CASE item = "helmet" -> "no_helmet"
                    [] item = "vest"   -> "no_vest"

StartsWithNo(status) == status \in {NoPrefix(l) : l \in Labels}

CountKey(status) == CASE status = "no_helmet" -> "no_helmet_count"
                      [] status = "no_vest"   -> "no_vest_count"
                      [] status = "helmet"    -> "helmet_count"
                      [] status = "vest"      -> "vest_count"

CounterKeys == {CountKey(NoPrefix(l)) : l \in Labels}

Thresh == Get(cfg, "helmet_conf_thresh", DefaultThresh)

StatusStrict(item, conf) == IF conf > Thresh THEN item ELSE NoPrefix(item)

Status(item, conf) == IF conf >= Thresh THEN item ELSE NoPrefix(item)

\* ---------------------------------------------------------- inference ----
\* the detections of the model: a helmet at either confidence, a vest at the
\* higher one
Boxes == {b \in [label : Labels, conf : ConfValues] : b.label = "helmet" \/ b.conf = 5}

BoxLists == UNION {[1..n -> Boxes] : n \in 0..MaxBoxes}

RECURSIVE Aggregate(_, _)
Aggregate(boxes, scores) ==
    IF boxes = <<>> THEN scores
    ELSE LET b == Head(boxes)
         IN  Aggregate(Tail(boxes),
                       IF b.conf > Get(scores, b.label, 0)
                       THEN Put(scores, b.label, b.conf)
                       ELSE scores)

\* ------------------------------------------------------------ inputs ----
BaseEntry == [cam_id |-> 1, track_id |-> 7]

Event(tasks, path) == BaseEntry @@ ("ppe_tasks" :> tasks) @@ ("path" :> path)

WithTs(entry, ts) == entry @@ ("ts" :> ts)

\* what producers push on the work queue: text that is not JSON, an empty
\* string, JSON that is not an object, an event with two tasks, an event
\* without a task list, and an event without an image
QueueItems ==
    { [kind |-> "malformed"], [kind |-> "empty"], [kind |-> "nondict"],
      JsonDumps(Event(<<"helmet", "vest">>, <<"a.jpg">>)),
      JsonDumps(BaseEntry @@ ("path" :> <<"a.jpg">>)),
      JsonDumps(BaseEntry @@ ("ppe_tasks" :> <<"helmet">>)) }

LegacyEvent == Event(<<"helmet", "helmet">>, <<"d", "a.jpg">>)

\* what the tracker adds to the legacy log, as member and score: an event
\* (with a repeated task) scored by its "ts", the same without "ts", an
\* event whose image does not load and whose "ts" is ahead of its score, an
\* event with an empty task list whose "ts" is behind its score, and members
\* that are not JSON objects
LogEntries ==
    {[member |-> JsonDumps(WithTs(LegacyEvent, t)), score |-> t] : t \in 1..MaxScore}
    \cup
    { [member |-> JsonDumps(LegacyEvent), score |-> MaxScore],
      [member |-> JsonDumps(WithTs(Event(<<"helmet">>, <<"bad.jpg">>), MaxScore)), score |-> 1],
      [member |-> JsonDumps(WithTs(Event(<<>>, <<"a.jpg">>), 1)), score |-> MaxScore],
      [member |-> [kind |-> "malformed"], score |-> 1],
      [member |-> [kind |-> "nondict"], score |-> 1] }

\* the configurations: all defaults with an update callback, or a default
\* task list and a threshold without one
Configs ==
    { [cfg |-> [device |-> "cpu"], hook |-> TRUE],
      [cfg |-> [device |-> "cpu", track_ppe |-> <<"helmet">>, helmet_conf_thresh |-> 3],
       hook |-> FALSE] }

\* --------------------------------------------------------- the worker ----
NoCtx == [tasks |-> <<>>, idx |-> 0, scores |-> EmptyDict, name |-> "",
          cam_id |-> 0, track_id |-> 0, ret |-> "none"]

\* the state after construction of the detectors in "configs" (the
\* admissible pairs of cfg and update_callback) and start() of the threads in
\* "started", with an empty store
WorkerInit(configs, started) ==
    /\ now = 1
    /\ \E c \in configs : cfg = c.cfg /\ hook = c.hook
    /\ running = [w \in Workers |-> TRUE]
    /\ pc = [w \in Workers |-> IF w \in started THEN "top" ELSE "new"]
    /\ last_ts = [w \in Workers |-> 0]
    /\ entries = [w \in Workers |-> <<>>]
    /\ ctx = [w \in Workers |-> NoCtx]
    /\ ppe_queue = <<>>
    /\ person_logs = {}
    /\ counters = EmptyDict
    /\ produced = 0
    /\ predictCalls = 0
    /\ hookCalls = 0
    /\ zaddCalls = 0
    /\ inferred = {}
    /\ handed = [w \in Workers |-> {}]

ResolveTasksFixedDefault(entry) == Get(entry, "ppe_tasks", <<"helmet">>)

\* tasks = entry.get("ppe_tasks", self.cfg.get("track_ppe", []))
ResolveTasks(entry) == Get(entry, "ppe_tasks", Get(cfg, "track_ppe", <<>>))

\* self.model.predict(img): the boxes the detection model finds in an image.
\* The model is a fixed function of the image, so a second call on the same
\* image returns the same boxes.
Predict(img) ==
    IF \E r \in inferred : r.img = img
    THEN {r.scores : r \in {x \in inferred : x.img = img}}
    ELSE {Aggregate(boxes, EmptyDict) : boxes \in BoxLists}

\* _process_entry up to its task loop (lines 38-55): either it returns
\* without effect, and the caller goes on at "ret", or the image is loaded,
\* predict is called once and the task loop starts
ProcessEntry(w, entry, ret) ==
    LET tasks == ResolveTasks(entry)
        path  == Get(entry, "path", NoPath)
    IN  IF tasks = <<>> \/ path = NoPath \/ ~ImRead(ImgPath(path))
        THEN /\ pc' = [pc EXCEPT ![w] = ret]
             /\ ctx' = [ctx EXCEPT ![w] = NoCtx]
             /\ UNCHANGED <<predictCalls, inferred>>
        ELSE \E scores \in Predict(ImgPath(path)) :
             /\ predictCalls < MaxPredicts
             /\ pc' = [pc EXCEPT ![w] = "zadd"]
             /\ ctx' = [ctx EXCEPT ![w] =
                          [tasks |-> tasks, idx |-> 1,
                           scores |-> scores,
                           name |-> PathName(ImgPath(path)),
                           cam_id |-> Get(entry, "cam_id", 0),
                           track_id |-> Get(entry, "track_id", 0),
                           ret |-> ret]]
             /\ predictCalls' = predictCalls + 1
             /\ inferred' = inferred \cup {[img |-> ImgPath(path), scores |-> scores]}

\* while self.running
Top(w) ==
    /\ UNCHANGED <<dashVars, handed>>
    /\ pc[w] = "top"
    /\ pc' = [pc EXCEPT ![w] = IF running[w] THEN "drain" ELSE "done"]
    /\ UNCHANGED <<now, cfg, hook, running, last_ts, entries, ctx, storeVars, produced, callVars, inferred>>

\* one pass of the inner "while True": lpop, the emptiness test, json.loads
\* and the call of _process_entry
Drain(w) ==
    /\ UNCHANGED <<dashVars, handed>>
    /\ pc[w] = "drain"
    /\ IF ppe_queue = <<>>
       THEN /\ pc' = [pc EXCEPT ![w] = "scan"]
            /\ UNCHANGED <<ppe_queue, ctx, predictCalls, inferred>>
       ELSE LET queued == Head(ppe_queue)
            IN  /\ ppe_queue' = Tail(ppe_queue)
                /\ IF ~Truthy(queued)
                   THEN /\ pc' = [pc EXCEPT ![w] = "scan"]
                        /\ UNCHANGED <<ctx, predictCalls, inferred>>
                   ELSE IF ~JsonLoadsOk(queued)
                   THEN UNCHANGED <<pc, ctx, predictCalls, inferred>>
                   ELSE IF ~IsDict(queued)
                   THEN /\ pc' = [pc EXCEPT ![w] = "crashed"]
                        /\ UNCHANGED <<ctx, predictCalls, inferred>>
                   ELSE ProcessEntry(w, JsonLoads(queued), "drain")
    /\ UNCHANGED <<now, cfg, hook, running, last_ts, entries,
                   person_logs, ppe_logs, counters, produced, hookCalls, zaddCalls>>

\* entries = [json.loads(e) for e in zrangebyscore("person_logs", last_ts + 1, "+inf")]
Scan(w) ==
    /\ UNCHANGED dashVars
    /\ pc[w] = "scan"
    /\ \E members \in ZRangeByScore(person_logs, last_ts[w] + 1) :
         IF \E i \in DOMAIN members : ~JsonLoadsOk(members[i])
         THEN /\ pc' = [pc EXCEPT ![w] = "crashed"]
              /\ UNCHANGED entries
         ELSE /\ pc' = [pc EXCEPT ![w] = "iter"]
              /\ entries' = [entries EXCEPT ![w] = members]
    /\ UNCHANGED <<now, cfg, hook, running, last_ts, ctx, storeVars, ghostVars>>

NextLastTsAssign(cur, entry) == Get(entry, "ts", 0)

\* self.last_ts = max(self.last_ts, entry.get("ts", 0))
NextLastTs(cur, entry) == Max(cur, Get(entry, "ts", 0))

\* one pass of "for entry in entries", or its end and time.sleep(1)
Iter(w) ==
    /\ UNCHANGED dashVars
    /\ pc[w] = "iter"
    /\ IF entries[w] = <<>>
       THEN /\ pc' = [pc EXCEPT ![w] = "top"]
            /\ UNCHANGED <<entries, last_ts, ctx, predictCalls, inferred, handed>>
       ELSE LET e == Head(entries[w])
            IN  /\ entries' = [entries EXCEPT ![w] = Tail(@)]
                /\ IF ~IsDict(e)
                   THEN /\ pc' = [pc EXCEPT ![w] = "crashed"]
                        /\ UNCHANGED <<last_ts, ctx, predictCalls, inferred, handed>>
                   ELSE /\ last_ts' = [last_ts EXCEPT ![w] = NextLastTs(@, JsonLoads(e))]
                        /\ handed' = [handed EXCEPT ![w] = @ \cup {e}]
                        /\ ProcessEntry(w, JsonLoads(e), "iter")
    /\ UNCHANGED <<now, cfg, hook, running, storeVars, produced, hookCalls, zaddCalls>>

\* int(time.time()): the clock never runs backwards
TimeTime == now..MaxTime

CurItem(w)   == ctx[w].tasks[ctx[w].idx]
CurConf(w)   == Get(ctx[w].scores, CurItem(w), 0)
CurStatus(w) == Status(CurItem(w), CurConf(w))

\* the dict "log" of the task loop, written at time ts
LogRecord(w, ts) ==
    [ts |-> ts, cam_id |-> ctx[w].cam_id, track_id |-> ctx[w].track_id,
     status |-> CurStatus(w), conf |-> CurConf(w), path |-> <<ctx[w].name>>]

\* task loop, lines 57-68: evaluate the task and zadd its record
Zadd(w) ==
    /\ UNCHANGED <<dashVars, handed>>
    /\ pc[w] = "zadd"
    /\ \E ts \in TimeTime :
         /\ now' = ts
         /\ ppe_logs' = ZAdd(ppe_logs, JsonDumps(LogRecord(w, ts)), ts)
    /\ zaddCalls' = zaddCalls + 1
    /\ pc' = [pc EXCEPT ![w] = "incr"]
    /\ UNCHANGED <<cfg, hook, running, last_ts, entries, ctx,
                   ppe_queue, person_logs, counters, produced, predictCalls, hookCalls, inferred>>

\* task loop, lines 69-72: the counter, the hook, and the next task or the
\* return to the caller
IncrStep(w) ==
    /\ UNCHANGED <<dashVars, handed>>
    /\ pc[w] = "incr"
    /\ counters' = IF StartsWithNo(CurStatus(w))
                   THEN Incr(counters, CountKey(CurStatus(w)))
                   ELSE counters
    /\ hookCalls' = IF hook THEN hookCalls + 1 ELSE hookCalls
    /\ IF ctx[w].idx < Len(ctx[w].tasks)
       THEN /\ ctx' = [ctx EXCEPT ![w].idx = @ + 1]
            /\ pc' = [pc EXCEPT ![w] = "zadd"]
       ELSE /\ ctx' = [ctx EXCEPT ![w] = NoCtx]
            /\ pc' = [pc EXCEPT ![w] = ctx[w].ret]
    /\ UNCHANGED <<now, cfg, hook, running, last_ts, entries,
                   ppe_queue, person_logs, ppe_logs, produced, predictCalls, zaddCalls, inferred>>

\* a store operation raises (connection lost): nothing in run() catches it
\* and the thread ends
StoreFail(w) ==
    /\ UNCHANGED dashVars
    /\ pc[w] \in {"drain", "scan", "zadd", "incr"}
    /\ pc' = [pc EXCEPT ![w] = "crashed"]
    /\ entries' = [entries EXCEPT ![w] = <<>>]
    /\ ctx' = [ctx EXCEPT ![w] = NoCtx]
    /\ UNCHANGED <<now, cfg, hook, running, last_ts, storeVars, ghostVars>>

\* detector.running = False, set from outside the thread
Stop(w) ==
    /\ UNCHANGED dashVars
    /\ running[w]
    /\ pc[w] \notin {"new", "done", "crashed"}
    /\ running' = [running EXCEPT ![w] = FALSE]
    /\ UNCHANGED <<now, cfg, hook, pc, last_ts, entries, ctx, storeVars, ghostVars>>

\* ------------------------------------------------------- environment ----
\* a producer pushes a request on the work queue
Enqueue ==
    /\ UNCHANGED <<dashVars, handed>>
    /\ produced < MaxProduced
    /\ \E item \in QueueItems : ppe_queue' = Append(ppe_queue, item)
    /\ produced' = produced + 1
    /\ UNCHANGED <<now, workerVars, person_logs, ppe_logs, counters, callVars, inferred>>

\* the same, restricted to the requests that carry an image
EnqueueEvent ==
    /\ UNCHANGED <<dashVars, handed>>
    /\ produced < MaxProduced
    /\ \E item \in {q \in QueueItems : IsDict(q) /\ "path" \in DOMAIN JsonLoads(q)} :
         ppe_queue' = Append(ppe_queue, item)
    /\ produced' = produced + 1
    /\ UNCHANGED <<now, workerVars, person_logs, ppe_logs, counters, callVars, inferred>>

\* the tracker adds an entry to the legacy log
AddLog ==
    /\ UNCHANGED <<dashVars, handed>>
    /\ produced < MaxProduced
    /\ \E e \in LogEntries : person_logs' = ZAdd(person_logs, e.member, e.score)
    /\ produced' = produced + 1
    /\ UNCHANGED <<now, workerVars, ppe_queue, ppe_logs, counters, callVars, inferred>>

\* the same, restricted to well-formed events scored by their "ts"
AddLogEvent ==
    /\ UNCHANGED <<dashVars, handed>>
    /\ produced < MaxProduced
    /\ \E e \in {x \in LogEntries : /\ IsDict(x.member)
                                     /\ Get(JsonLoads(x.member), "ts", 0) = x.score} :
         person_logs' = ZAdd(person_logs, e.member, e.score)
    /\ produced' = produced + 1
    /\ UNCHANGED <<now, workerVars, ppe_queue, ppe_logs, counters, callVars, inferred>>

MaxBacklog == 2     \* items waiting in ppe_queue while the feed goes on

\* what the feed pushes: requests the worker drops before inference
FeedItems == {q \in QueueItems : ~JsonLoadsOk(q) \/ (IsDict(q) /\ "path" \notin DOMAIN JsonLoads(q))}

\* a producer that never stops: it pushes a request whenever fewer than
\* MaxBacklog are waiting
Feed ==
    /\ UNCHANGED <<dashVars, handed>>
    /\ Len(ppe_queue) < MaxBacklog
    /\ \E item \in FeedItems : ppe_queue' = Append(ppe_queue, item)
    /\ UNCHANGED <<now, workerVars, person_logs, ppe_logs, counters, produced, callVars, inferred>>

WorkerStep(w) ==
    \/ Top(w)
    \/ Drain(w)
    \/ Scan(w)
    \/ Iter(w)
    \/ Zadd(w)
    \/ IncrStep(w)

\* ------------------------------------------------------ the stats relay ----
MaxPosts == 2       \* messages posted to the stream

Subs == {"s1", "s2"}

Dollar == -1        \* the cursor '$'

XReadCount == 1     \* count=1

\* the fields of a stream message: a payload under "data", or none
MsgFields == {[data |-> "stats"], [note |-> "x"]}

\* the position a cursor stands for when the server receives the read:
\* '$' is the id of the last message in the stream at that moment
Resolve(cursor, strm) == IF cursor = Dollar THEN Len(strm) ELSE cursor

XReadInclusive(strm, pos, count) ==
    [i \in 1..(IF Len(strm) - pos + 1 < count THEN Len(strm) - pos + 1 ELSE count)
        |-> IF pos + i - 1 < 1 THEN 1 ELSE pos + i - 1]

\* redis.xread({'people_counter': cursor}, count=count), once the cursor is
\* resolved to pos: the ids of the first count messages after pos
XRead(strm, pos, count) ==
    [i \in 1..(IF Len(strm) - pos < count THEN Len(strm) - pos ELSE count) |-> pos + i]

\* the messages of a read that carry data: the ones sent on to the client
Forwardable(strm, ids) ==
    SelectSeq(ids, LAMBDA i : Get(strm[i], "data", "") # "")

\* last_id after "for sid, fields in messages: last_id = sid"
NextCursor(cursor, ids) == IF ids = <<>> THEN cursor ELSE ids[Len(ids)]

SetCursorShared(cursors, s, cursor) == [t \in DOMAIN cursors |-> cursor]

\* last_id is a local of each handler call: assigning it in the loop of
\* subscriber s changes the cursor of s only
SetCursor(cursors, s, cursor) == [cursors EXCEPT ![s] = cursor]

RelayInit ==
    /\ stream = <<>>
    /\ skind = [s \in Subs |-> "none"]
    /\ spc = [s \in Subs |-> "idle"]
    /\ last_id = [s \in Subs |-> Dollar]
    /\ after = [s \in Subs |-> 0]
    /\ got = [s \in Subs |-> <<>>]
    /\ received = [s \in Subs |-> <<>>]
    /\ snaps = [s \in Subs |-> 0]
    /\ connectedAt = [s \in Subs |-> 0]
    /\ alive = [s \in Subs |-> FALSE]

\* a publisher appends a message to the stream
Post ==
    /\ Len(stream) < MaxPosts
    /\ \E f \in MsgFields : stream' = Append(stream, f)
    /\ UNCHANGED <<skind, spc, last_id, after, got, received, snaps, connectedAt, alive>>
    /\ UNCHANGED <<now, workerVars, storeVars, ghostVars, queryVars>>

\* ws_stats: await ws.accept()
WsConnect(s) ==
    /\ spc[s] = "idle"
    /\ skind' = [skind EXCEPT ![s] = "ws"]
    /\ spc' = [spc EXCEPT ![s] = "accepted"]
    /\ connectedAt' = [connectedAt EXCEPT ![s] = Len(stream)]
    /\ alive' = [alive EXCEPT ![s] = TRUE]
    /\ UNCHANGED <<stream, last_id, after, got, received, snaps>>
    /\ UNCHANGED <<now, workerVars, storeVars, ghostVars, queryVars>>

\* ws_stats: await ws.send_json(gather_stats(...)); last_id = '$'.  Sending
\* to a client that has gone raises and ends the handler.
WsSnapshot(s) ==
    /\ spc[s] = "accepted"
    /\ IF alive[s]
       THEN /\ snaps' = [snaps EXCEPT ![s] = @ + 1]
            /\ spc' = [spc EXCEPT ![s] = "loop"]
       ELSE /\ spc' = [spc EXCEPT ![s] = "closed"]
            /\ UNCHANGED snaps
    /\ last_id' = [last_id EXCEPT ![s] = Dollar]
    /\ UNCHANGED <<stream, skind, after, got, received, connectedAt, alive>>
    /\ UNCHANGED <<now, workerVars, storeVars, ghostVars, queryVars>>

\* sse_stats: the response starts event_gen, which sets last_id = '$'
SseConnect(s) ==
    /\ spc[s] = "idle"
    /\ skind' = [skind EXCEPT ![s] = "sse"]
    /\ spc' = [spc EXCEPT ![s] = "loop"]
    /\ last_id' = [last_id EXCEPT ![s] = Dollar]
    /\ connectedAt' = [connectedAt EXCEPT ![s] = Len(stream)]
    /\ alive' = [alive EXCEPT ![s] = TRUE]
    /\ UNCHANGED <<stream, after, got, received, snaps>>
    /\ UNCHANGED <<now, workerVars, storeVars, ghostVars, queryVars>>

\* the xread of one loop pass reaches the store, which resolves the cursor
ReadIssue(s) ==
    /\ spc[s] = "loop"
    /\ after' = [after EXCEPT ![s] = Resolve(last_id[s], stream)]
    /\ spc' = [spc EXCEPT ![s] = "blocked"]
    /\ UNCHANGED <<stream, skind, last_id, got, received, snaps, connectedAt, alive>>
    /\ UNCHANGED <<now, workerVars, storeVars, ghostVars, queryVars>>

\* the pending xread returns messages: the cursor moves and the messages
\* with data are sent on; ws.send_text to a client that has gone raises
\* WebSocketDisconnect, which ends the handler
ReadReturn(s) ==
    /\ spc[s] = "blocked"
    /\ Len(stream) > after[s]
    /\ LET ids == XRead(stream, after[s], XReadCount)
           fwd == Forwardable(stream, ids)
       IN  /\ got' = [got EXCEPT ![s] = @ \o ids]
           /\ last_id' = SetCursor(last_id, s, NextCursor(last_id[s], ids))
           /\ IF skind[s] = "ws" /\ ~alive[s] /\ fwd # <<>>
              THEN /\ spc' = [spc EXCEPT ![s] = "closed"]
                   /\ UNCHANGED received
              ELSE /\ spc' = [spc EXCEPT ![s] = "loop"]
                   /\ received' = [received EXCEPT ![s] = @ \o fwd]
    /\ UNCHANGED <<stream, skind, after, snaps, connectedAt, alive>>
    /\ UNCHANGED <<now, workerVars, storeVars, ghostVars, queryVars>>

\* the pending xread times out (block=10000) with nothing behind its position
ReadTimeout(s) ==
    /\ spc[s] = "blocked"
    /\ Len(stream) = after[s]
    /\ spc' = [spc EXCEPT ![s] = "loop"]
    /\ UNCHANGED <<stream, skind, last_id, after, got, received, snaps, connectedAt, alive>>
    /\ UNCHANGED <<now, workerVars, storeVars, ghostVars, queryVars>>

\* the client goes away
Disconnect(s) ==
    /\ spc[s] \notin {"idle", "closed"}
    /\ alive[s]
    /\ alive' = [alive EXCEPT ![s] = FALSE]
    /\ UNCHANGED <<stream, skind, spc, last_id, after, got, received, snaps, connectedAt>>
    /\ UNCHANGED <<now, workerVars, storeVars, ghostVars, queryVars>>

\* the streaming response of a client that has gone is cancelled at the
\* generator's pending await
SseCancel(s) ==
    /\ skind[s] = "sse"
    /\ spc[s] \in {"loop", "blocked"}
    /\ ~alive[s]
    /\ spc' = [spc EXCEPT ![s] = "closed"]
    /\ UNCHANGED <<stream, skind, last_id, after, got, received, snaps, connectedAt, alive>>
    /\ UNCHANGED <<now, workerVars, storeVars, ghostVars, queryVars>>

\* ------------------------------------------------------- latest_images ----
MaxLogs  == 3       \* records in ppe_logs when latest_images is asked
MaxCount == 2       \* the count parameter ranges over 0..MaxCount

RevRangeStop == 1000

DefaultCount == 5

DescendingSeqs(zs) ==
    {s \in [1..Cardinality(zs) -> zs] :
        /\ \A i, j \in DOMAIN s : i # j => s[i] # s[j]
        /\ \A i, j \in DOMAIN s : i < j => s[i].score >= s[j].score}

\* redis.zrevrange(key, 0, stop): the members by descending score, the
\* first stop + 1 of them
ZRevRange(zset, stop) ==
    {[i \in 1..(IF Len(s) < stop + 1 THEN Len(s) ELSE stop + 1) |-> s[i].member] :
        s \in DescendingSeqs(zset)}

\* the loop of latest_images: the entries it appends an image for
RECURSIVE Collect(_, _, _, _)
Collect(items, status, count, acc) ==
    IF items = <<>> THEN acc
    ELSE LET e == JsonLoads(Head(items))
         IN  IF Get(e, "status", "") = status /\ Get(e, "path", NoPath) # NoPath
             THEN IF Len(acc) + 1 >= count
                  THEN Append(acc, e)
                  ELSE Collect(Tail(items), status, count, Append(acc, e))
             ELSE Collect(Tail(items), status, count, acc)

\* f'/snapshots/{os.path.basename(e["path"])}'
ImageUrl(e) == <<"/", "snapshots", PathName(e.path)>>

QueryInit ==
    /\ query = [status |-> "no_helmet", count |-> DefaultCount]
    /\ selected = <<>>
    /\ images = <<>>

LatestImages ==
    /\ \E status \in {"helmet", "no_helmet"}, count \in 0..MaxCount :
         /\ query' = [status |-> status, count |-> count]
         /\ \E items \in ZRevRange(ppe_logs, RevRangeStop) :
              /\ selected' = Collect(items, status, count, <<>>)
              /\ images' = [i \in DOMAIN selected' |-> ImageUrl(selected'[i])]
    /\ UNCHANGED <<now, workerVars, storeVars, ghostVars, relayVars>>

\* the result logs a worker can have written under the default configuration
QueryRecords ==
    {[ts |-> t, cam_id |-> 1, track_id |-> 7, status |-> st,
      conf |-> IF st = "helmet" THEN DefaultThresh ELSE 0, path |-> <<n>>] :
        t \in 1..MaxTime, st \in {"helmet", "no_helmet"}, n \in {"a.jpg", "b.jpg"}}

LogContents ==
    {{[member |-> JsonDumps(r), score |-> r.ts] : r \in rs} :
        rs \in {x \in SUBSET QueryRecords : Cardinality(x) <= MaxLogs}}

\* ------------------------------------------------------ specifications ----
\* one worker with producers on both of its sources and a store that can fail
Init ==
    /\ WorkerInit(Configs, {"w1"})
    /\ ppe_logs = {}
    /\ RelayInit
    /\ QueryInit

Next ==
    \/ \E w \in Workers : WorkerStep(w)
    \/ \E w \in Workers : StoreFail(w)
    \/ Enqueue
    \/ AddLog

Spec == Init /\ [][Next]_vars

\* one worker that is told to stop, with producers on both of its sources
InitStop ==
    /\ WorkerInit(Configs, {"w1"})
    /\ ppe_logs = {}
    /\ RelayInit
    /\ QueryInit

NextStop ==
    \/ \E w \in Workers : WorkerStep(w)
    \/ \E w \in Workers : Stop(w)
    \/ Enqueue
    \/ AddLog

SpecStop == InitStop /\ [][NextStop]_vars

\* the same worker under a fair scheduler, with a feed on the work queue
\* that goes on
NextStopFed ==
    \/ \E w \in Workers : WorkerStep(w)
    \/ \E w \in Workers : Stop(w)
    \/ Enqueue
    \/ Feed

SpecStopFed ==
    /\ InitStop
    /\ [][NextStopFed]_vars
    /\ \A w \in Workers : WF_vars(WorkerStep(w))

\* one worker under a fair scheduler, with an empty work queue and a
\* tracker that adds well-formed events to the legacy log
InitLog ==
    /\ WorkerInit(Configs, {"w1"})
    /\ ppe_logs = {}
    /\ RelayInit
    /\ QueryInit

NextLog ==
    \/ \E w \in Workers : WorkerStep(w)
    \/ AddLogEvent

SpecLog ==
    /\ InitLog
    /\ [][NextLog]_vars
    /\ \A w \in Workers : WF_vars(WorkerStep(w))

\* two workers on one store, fed through the work queue
InitDuo ==
    /\ WorkerInit(Configs, Workers)
    /\ ppe_logs = {}
    /\ RelayInit
    /\ QueryInit

NextDuo ==
    \/ \E w \in Workers : WorkerStep(w)
    \/ EnqueueEvent

SpecDuo == InitDuo /\ [][NextDuo]_vars

\* the relay: two subscribers and a publisher
InitRelay ==
    /\ WorkerInit({c \in Configs : c.hook}, {})
    /\ ppe_logs = {}
    /\ RelayInit
    /\ QueryInit

NextRelay ==
    \/ Post
    \/ \E s \in Subs : WsConnect(s)
    \/ \E s \in Subs : WsSnapshot(s)
    \/ \E s \in Subs : SseConnect(s)
    \/ \E s \in Subs : ReadIssue(s)
    \/ \E s \in Subs : ReadReturn(s)
    \/ \E s \in Subs : ReadTimeout(s)
    \/ \E s \in Subs : Disconnect(s)
    \/ \E s \in Subs : SseCancel(s)

SpecRelay == InitRelay /\ [][NextRelay]_vars

\* the steps the event loop and its thread pool take for the handler of s
HandlerStep(s) ==
    \/ WsSnapshot(s)
    \/ ReadIssue(s)
    \/ ReadReturn(s)
    \/ ReadTimeout(s)

\* the relay under a fair event loop: a handler that can take a step takes
\* one, and a cancelled streaming response is cancelled at its next await
SpecRelayFair ==
    /\ InitRelay
    /\ [][NextRelay]_vars
    /\ \A s \in Subs : WF_vars(HandlerStep(s)) /\ WF_vars(SseCancel(s))

\* latest_images on every small result log
InitQuery ==
    /\ WorkerInit({c \in Configs : c.hook}, {})
    /\ ppe_logs \in LogContents
    /\ RelayInit
    /\ QueryInit

NextQuery == LatestImages

SpecQuery == InitQuery /\ [][NextQuery]_vars

\* ------------------------------------------------------------ claims ----
Records == {JsonLoads(x.member) : x \in ppe_logs}

NoStatuses == {NoPrefix(l) : l \in Labels}

\* C1: the status of every result record is the task name exactly when the
\* task's confidence (0 when the label is missing from the confidence map)
\* is at least the configured threshold, and "no_<task>" otherwise; a
\* confidence equal to the threshold gives the task name.
C1_ThresholdInclusive ==
    /\ \A r \in Records :
          IF r.conf >= Thresh THEN r.status \in Labels ELSE r.status \in NoStatuses
    /\ \A w \in Workers : pc[w] = "incr" =>
          LET item == ctx[w].tasks[ctx[w].idx]
              conf == IF item \in DOMAIN ctx[w].scores THEN ctx[w].scores[item] ELSE 0
          IN  \E r \in Records :
                /\ r.conf = conf
                /\ r.status = IF conf >= Thresh THEN item ELSE NoPrefix(item)

\* a record written with a confidence equal to the threshold, and compliant
C1_Witness ==
    \E r \in Records : r.conf = Thresh /\ r.status \in Labels

\* C2: every zadd of the task loop adds one new record to ppe_logs, so that
\* the log holds one record per task evaluated so far.
C2_OneRecordPerTask == Cardinality(ppe_logs) = zaddCalls

\* the worker w completes the counter step of a non-compliant task whose
\* counter is key
Increments(w, key) ==
    /\ pc[w] = "incr"
    /\ pc'[w] \notin {"incr", "crashed"}
    /\ CurStatus(w) \in NoStatuses
    /\ CountKey(CurStatus(w)) = key

AllCountKeys == {CountKey(st) : st \in Labels \cup NoStatuses}

\* C3: in every step, each counter "no_<task>_count" grows by exactly 1 if
\* a worker completes the counter step of a non-compliant evaluation of that
\* task, and is unchanged otherwise; no counter of a compliant status
\* exists; so no counter decreases and no increment is lost, with several
\* workers on one store.
C3_CountersExact ==
    [][ /\ \A key \in AllCountKeys :
              Get(counters', key, 0) =
                  Get(counters, key, 0)
                    + (IF \E w \in Workers : Increments(w, key) THEN 1 ELSE 0)
        /\ DOMAIN counters' \subseteq CounterKeys ]_vars

\* both workers are in their task loops and a counter has been incremented
C3_Witness ==
    /\ \A w \in Workers : pc[w] \in {"zadd", "incr"}
    /\ \E key \in CounterKeys : Get(counters, key, 0) >= 1
    /\ \E r \in Records : r.status \in Labels

\* the entries handed to _process_entry in the current step
StepEntries ==
    {JsonLoads(q) : q \in {x \in (IF ppe_queue # <<>> /\ ppe_queue' = Tail(ppe_queue)
                                  THEN {Head(ppe_queue)} ELSE {}) : IsDict(x)}}
    \cup
    UNION {{JsonLoads(q) : q \in {x \in (IF /\ pc[w] = "iter"
                                            /\ entries[w] # <<>>
                                            /\ entries'[w] = Tail(entries[w])
                                         THEN {Head(entries[w])} ELSE {}) : IsDict(x)}} :
           w \in Workers}

\* the current step writes nothing, calls neither predict nor the hook and
\* does not enter the task loop
NoEffect ==
    /\ ppe_logs' = ppe_logs
    /\ counters' = counters
    /\ predictCalls' = predictCalls
    /\ hookCalls' = hookCalls
    /\ \A w \in Workers : pc'[w] = pc[w] \/ pc'[w] \notin {"zadd", "incr"}

\* C4, as stated: processing an event whose task list is empty or absent
\* writes no record, changes no counter and calls neither predict nor the
\* update hook.
C4_EmptyOrAbsentSkipped ==
    [][ \A e \in StepEntries :
          ("ppe_tasks" \notin DOMAIN e \/ e.ppe_tasks = <<>>) => NoEffect ]_vars

\* C4, amended: the same for an event whose task list resolves to empty: it
\* is present and empty, or absent while the configured default list
\* track_ppe is absent or empty.
C4_ResolvedEmptySkipped ==
    [][ \A e \in StepEntries :
          (IF "ppe_tasks" \in DOMAIN e
           THEN e.ppe_tasks = <<>>
           ELSE ("track_ppe" \notin DOMAIN cfg \/ cfg.track_ppe = <<>>))
          => NoEffect ]_vars

LogEmptyTasks ==
    [member |-> JsonDumps(WithTs(Event(<<>>, <<"a.jpg">>), 1)), score |-> MaxScore]

\* the legacy entry with an empty task list has been iterated (its "ts" is
\* the watermark) and nothing was written
C4_Witness ==
    /\ person_logs = {LogEmptyTasks}
    /\ pc["w1"] = "iter" /\ entries["w1"] = <<>>
    /\ last_ts["w1"] = 1
    /\ ppe_logs = {} /\ predictCalls = 0 /\ hookCalls = 0

\* C5: no step lowers the watermark last_ts of a worker.
C5_WatermarkMonotonic ==
    [][ \A w \in Workers : last_ts'[w] >= last_ts[w] ]_vars

LogAhead ==
    [member |-> JsonDumps(WithTs(Event(<<"helmet">>, <<"bad.jpg">>), MaxScore)), score |-> 1]

LogNoTs == [member |-> JsonDumps(LegacyEvent), score |-> MaxScore]

\* a scan has iterated an entry whose "ts" is MaxScore and then, behind it,
\* an entry without "ts", and the watermark is still MaxScore
C5_Witness ==
    /\ person_logs = {LogAhead, LogNoTs}
    /\ pc["w1"] = "iter" /\ entries["w1"] = <<>>
    /\ last_ts["w1"] = MaxScore
    /\ predictCalls >= 1

\* C6: a step that pops a queue item json.loads rejects, with items behind
\* it in the queue, processes nothing, leaves the watermark alone, removes
\* that item only and leaves the worker in its drain loop, where the items
\* behind it are popped next.
C6_MalformedDoesNotHaltDrain ==
    [][ ( /\ Len(ppe_queue) >= 2
          /\ ppe_queue' = Tail(ppe_queue)
          /\ ~JsonLoadsOk(Head(ppe_queue)) )
        => /\ last_ts' = last_ts
           /\ predictCalls' = predictCalls
           /\ ppe_logs' = ppe_logs
           /\ \A i \in 1..Len(ppe_queue') : ppe_queue'[i] = ppe_queue[i + 1]
           /\ \A w \in Workers : pc[w] = "drain" => pc'[w] = "drain" ]_vars

StrictlyIncreasing(seq) == \A i, j \in DOMAIN seq : i < j => seq[i] < seq[j]

\* C7: the ids a subscriber's reads return are strictly increasing and
\* lie strictly after the stream position of its connection, the forwarded
\* ids are ids read that carry data, in the same order and each once, and
\* the cursor is '$' before the first message and the id of the last
\* message read from then on.
C7_OrderedAtMostOnce ==
    \A s \in Subs :
        /\ StrictlyIncreasing(got[s])
        /\ StrictlyIncreasing(received[s])
        /\ \A i \in DOMAIN got[s] : got[s][i] > connectedAt[s]
        /\ Len(received[s]) <= Len(Forwardable(stream, got[s]))
        /\ received[s] = SubSeq(Forwardable(stream, got[s]), 1, Len(received[s]))
        /\ last_id[s] = (IF got[s] = <<>> THEN Dollar ELSE got[s][Len(got[s])])
        /\ (spc[s] = "blocked" /\ got[s] # <<>>) => after[s] = last_id[s]

\* a subscriber has been forwarded two messages
C7_Witness == \E s \in Subs : Len(received[s]) >= 2

\* C8: a subscriber's reads return every message posted after it connected,
\* up to the last one read, and none posted before.
C8_NoMessageLost ==
    \A s \in Subs :
        got[s] # <<>> =>
            {got[s][i] : i \in DOMAIN got[s]} = (connectedAt[s] + 1)..got[s][Len(got[s])]

\* C9: a subscriber whose first stream read is issued, or who was sent a
\* stream message, was sent exactly one snapshot before.
C9_SnapshotFirst ==
    \A s \in Subs :
        /\ snaps[s] <= 1
        /\ (spc[s] = "blocked" \/ got[s] # <<>>) => snaps[s] = 1

\* C10: latest_images returns at most count images, all of records with the
\* requested status, most recent first.
C10_LatestImages ==
    /\ Len(images) <= query.count
    /\ Len(images) = Len(selected)
    /\ \A i \in DOMAIN selected :
          /\ selected[i] \in Records
          /\ selected[i].status = query.status
    /\ \A i, j \in DOMAIN selected : i < j => selected[i].ts >= selected[j].ts

\* the legacy entries handed to _process_entry by worker w in the current
\* step (line 94)
StepHanded(w) ==
    IF pc[w] = "iter" /\ entries[w] # <<>> /\ entries'[w] = Tail(entries[w])
    THEN {x \in {Head(entries[w])} : IsDict(x)}
    ELSE {}

\* C11: when a legacy entry with a timestamp is handed to _process_entry and
\* its task loop starts, so that records of the entry are still to be
\* written, the watermark is still below the entry's timestamp.
C11_RecordsBeforeWatermark ==
    [][ \A w \in Workers : \A e \in StepHanded(w) :
          ("ts" \in DOMAIN JsonLoads(e) /\ pc'[w] = "zadd")
              => last_ts'[w] < JsonLoads(e).ts ]_vars

\* C12: while the store answers every operation, no worker thread is ended
\* by an exception: whatever items the queue and the legacy log hold, the
\* worker stays in its loop until it is told to stop.
C12_ItemFailuresContained == \A w \in Workers : pc[w] # "crashed"

\* C13: a worker inside the task loop of an event with tasks still to be
\* evaluated stays inside that loop, whatever happens to the task at hand:
\* no step takes it out of the loop before the last task.
C13_TasksIndependent ==
    [][ \A w \in Workers :
          (pc[w] \in {"zadd", "incr"} /\ ctx[w].idx < Len(ctx[w].tasks))
              => pc'[w] \in {"zadd", "incr"} ]_vars

\* everything the relay keeps for subscriber s
SubState(s) ==
    <<skind[s], spc[s], last_id[s], after[s], got[s], received[s], snaps[s],
      connectedAt[s], alive[s]>>

\* C14: no step changes the relay state of two subscribers (cursor, pending
\* read, messages read and forwarded, connection), and a step of a
\* subscriber's loop leaves the stream, the counters, the result log, the
\* work queue and the legacy log as they are.
C14_LoopsIsolated ==
    [][ /\ \A s, t \in Subs :
              s # t => (SubState(s)' = SubState(s) \/ SubState(t)' = SubState(t))
        /\ (\E s \in Subs : SubState(s)' # SubState(s))
              => /\ stream' = stream
                 /\ counters' = counters
                 /\ ppe_logs' = ppe_logs
                 /\ ppe_queue' = ppe_queue
                 /\ person_logs' = person_logs ]_vars

\* one subscriber's loop has ended after its client went away, while the
\* other has been forwarded a message and holds another cursor
C14_Witness ==
    \E s, t \in Subs :
        /\ s # t
        /\ spc[s] = "closed" /\ ~alive[s]
        /\ alive[t] /\ received[t] # <<>>
        /\ last_id[s] # last_id[t]

\* C15: once the client of a subscriber has gone away, the subscriber's
\* loop ends.
C15_DisconnectEndsLoop ==
    \A s \in Subs : (skind[s] # "none" /\ ~alive[s]) ~> (spc[s] = "closed")

\* the thread of worker w has ended
Exited(w) == pc[w] \in {"done", "crashed"}

\* C16, the part about the event in flight: a worker leaves its loop only
\* when it was told to stop, and then between two events (no task loop
\* under way and no scanned entry left).
C16_ExitsBetweenEvents ==
    \A w \in Workers :
        pc[w] = "done" => (~running[w] /\ ctx[w] = NoCtx /\ entries[w] = <<>>)

\* C16: the above, and a worker that was told to stop does exit.
C16_StopsAfterInFlight ==
    /\ []C16_ExitsBetweenEvents
    /\ \A w \in Workers : (~running[w]) ~> Exited(w)

\* the entries worker w hands to _process_entry in the current step, from
\* the queue (line 85) or from its scan (line 94)
StepTaken(w) ==
    {JsonLoads(x) :
        x \in {q \in (IF pc[w] = "drain" /\ ppe_queue # <<>> /\ ppe_queue' = Tail(ppe_queue)
                      THEN {Head(ppe_queue)} ELSE {}) : IsDict(q)}
              \cup StepHanded(w)}

\* the entry names no image, or names a file that holds no loadable image
NoImage(e) ==
    \/ Get(e, "path", NoPath) = NoPath
    \/ ImgPath(e.path) \notin Files

\* C17: a step that hands an event without a loadable image to
\* _process_entry writes no record, changes no counter, calls neither
\* predict nor the update hook, and leaves the worker in the loop it was
\* in, at the next item.
C17_NoImageSkipped ==
    [][ \A w \in Workers : \A e \in StepTaken(w) :
          NoImage(e) => (NoEffect /\ pc'[w] = pc[w]) ]_vars

\* the legacy entry whose image does not load has been handed over, and
\* the worker is in its scan loop with nothing written
C17_Witness ==
    /\ LogAhead.member \in handed["w1"]
    /\ pc["w1"] = "iter"
    /\ ppe_logs = {} /\ counters = EmptyDict
    /\ predictCalls = 0 /\ hookCalls = 0

\* the records of ppe_logs with the given status
WithStatus(st) == {x \in ppe_logs : JsonLoads(x.member).status = st}

\* C18: whenever no worker is inside a task loop and none has crashed, for
\* every task t the counter "no_<t>_count" (0 when the key is missing)
\* equals the number of records with status "no_<t>" in ppe_logs.
C18_CountersMatchLog ==
    (\A w \in Workers : pc[w] \notin {"zadd", "incr", "crashed"})
        => \A l \in Labels :
              Get(counters, CountKey(NoPrefix(l)), 0) = Cardinality(WithStatus(NoPrefix(l)))

\* C19: no worker hands to _process_entry a legacy entry it has handed to
\* it before.
C19_LegacyAtMostOnce ==
    [][ \A w \in Workers : \A e \in StepHanded(w) : e \notin handed[w] ]_vars

\* C20: every entry of the legacy log is handed to _process_entry by the
\* running worker at some time after it was added.
C20_LegacyEventuallyProcessed ==
    \A e \in {x.member : x \in LogEntries} :
        (e \in {x.member : x \in person_logs}) ~> (e \in handed["w1"])

====
